---- MODULE Spec2Model ----
(***************************************************************************)
(* Model of the /chat pipeline of the RAG chat backend                     *)
(* (src/backend/api/routes_chat.py, src/backend/rag/chains.py,             *)
(* src/backend/rag/retriever.py, src/backend/services/llm_*.py,            *)
(* src/backend/main.py).                                                   *)
(*                                                                         *)
(* A text is a sequence of fragments.  User supplied texts (messages,      *)
(* provider names, chunk texts) are sequences of one-character strings so  *)
(* that lower(), the substring test, join and strip() are computed as the  *)
(* code computes them; the two fixed literals and the model's replies are  *)
(* one-fragment texts.                                                     *)
(*                                                                         *)
(* FastAPI runs the synchronous handlers in a thread pool, so requests     *)
(* interleave at the granularity of the atomic steps below.                *)
(***************************************************************************)
EXTENDS Naturals, Sequences, FiniteSets

\* ---------------------------------------------------------------- bounds
MaxRequests == 2
MaxWarmups == 1

\* The handlers are synchronous, so FastAPI runs them on threads of its
\* worker pool; two workers, each serving one request at a time.
Workers == {"w1", "w2"}

\* ----------------------------------------------------------- characters
UpperChars == <<"A","B","C","D","E","F","G","H","I","J","K","L","M",
                "N","O","P","Q","R","S","T","U","V","W","X","Y","Z">>
LowerChars == <<"a","b","c","d","e","f","g","h","i","j","k","l","m",
                "n","o","p","q","r","s","t","u","v","w","x","y","z">>

\* str.lower() on one character
LowerChar(c) ==
    IF \E i \in 1..Len(UpperChars) : UpperChars[i] = c
    THEN LowerChars[CHOOSE i \in 1..Len(UpperChars) : UpperChars[i] = c]
    ELSE c

\* str.lower()
Lower(s) == [i \in 1..Len(s) |-> LowerChar(s[i])]

\* Python's `w in t` for strings: w occurs in t as a contiguous substring
IsSubstring(w, t) ==
    \E i \in 0..Len(t) :
        /\ i + Len(w) <= Len(t)
        /\ \A j \in 1..Len(w) : t[i + j] = w[j]

Whitespace == {" ", "\n", "\t"}

\* str.strip(): drop leading and trailing whitespace
RECURSIVE LStrip(_)
LStrip(s) == IF s # <<>> /\ Head(s) \in Whitespace THEN LStrip(Tail(s)) ELSE s

RECURSIVE RStrip(_)
RStrip(s) ==
    IF s # <<>> /\ s[Len(s)] \in Whitespace
    THEN RStrip(SubSeq(s, 1, Len(s) - 1))
    ELSE s

Strip(s) == RStrip(LStrip(s))

\* ------------------------------------------------------------- literals
SCOPE_MSG ==
    <<"That topic is outside my scope. I can help with MFI Business Document related information.">>

\* (the source literal uses a typographic apostrophe and dash; written in ASCII here)
ABUSE_MSG ==
    <<"I'm here to help with MFI Business Document queries. I can't continue when there's abusive language-please rephrase your question respectfully.">>

ABUSIVE_WORDS ==
    { <<"i","d","i","o","t">>,
      <<"s","t","u","p","i","d">>,
      <<"n","o","n","s","e","n","s","e">>,
      <<"f","o","o","l">>,
      <<"s","h","i","t">>,
      <<"f","u","c","k">>,
      <<"b","a","s","t","a","r","d">>,
      <<"m","o","r","o","n">>,
      <<"a","s","s","h","o","l","e">>,
      <<"c","h","u","t","i","y","a">> }

\* the guard without lower(): terms are matched case-sensitively
contains_abuse_case_sensitive(text) ==
    \E bad \in ABUSIVE_WORDS : IsSubstring(bad, text)

contains_abuse(text) ==
    LET t == Lower(text)
    IN  \E bad \in ABUSIVE_WORDS : IsSubstring(bad, t)

\* --------------------------------------------------------------- inputs
\* Query.message
Messages ==
    { <<"l","o","a","n">>,
      <<"F","o","O","l","s">> }

\* Query.session_id; "" stands for both None and the empty string (falsy)
SessionIds == {"", "A"}

\* Query.provider; <<>> stands for both None and the empty string (falsy)
Providers ==
    { <<>>,
      <<"F","i","r","e","w","o","r","k","s">>,
      <<"m","i","s","t","r","a","l">> }

GEMINI == <<"g","e","m","i","n","i">>
FIREWORKS == <<"f","i","r","e","w","o","r","k","s">>

\* LLM replies the generation backend may produce
LLMAnswers == { <<"Loans are disbursed after approval.">> }

\* ------------------------------------------------------------ retrieval
\* relevance scores in hundredths: 0.35 is 35
SCORE_THRESHOLD == 35
K == 4

Chunk(text, score) == [page_content |-> text, score |-> score]

\* Chunk texts as the ingest job stores them: RecursiveCharacterTextSplitter
\* strips whitespace and drops empty chunks, so a stored text is never blank.
ChunkFee == <<"f","e","e">>
ChunkRate == <<"r"," ","8">>

\* What the vector index may rank for a question (text, relevance score)
Rankings ==
    { <<>>,
      <<Chunk(ChunkFee, 20)>>,
      <<Chunk(ChunkFee, 60), Chunk(ChunkRate, 35), Chunk(ChunkFee, 20)>> }

\* similarity_score_threshold retriever: the k nearest, then those whose
\* relevance score is at least score_threshold, ranking order kept
Retrieved(ranking) ==
    LET nearest == SubSeq(ranking, 1, IF Len(ranking) < K THEN Len(ranking) ELSE K)
        keep(c) == c.score >= SCORE_THRESHOLD
    IN  SelectSeq(nearest, keep)

\* the join taken over a field the documents do not carry: empty pieces
_join_docs_wrong_field(ds) ==
    IF ds = <<>> THEN <<>> ELSE [i \in 1..(2 * (Len(ds) - 1)) |-> "\n"]

\* build_chain._join_docs: "\n\n".join(d.page_content for d in docs)
RECURSIVE _join_docs(_)
_join_docs(ds) ==
    IF ds = <<>> THEN <<>>
    ELSE IF Len(ds) = 1 THEN ds[1].page_content
    ELSE ds[1].page_content \o <<"\n", "\n">> \o _join_docs(Tail(ds))

\* the branch testing for a missing context only, which never is missing
refuse_if_context_missing(context) == FALSE

\* RunnableBranch condition 1: not d.get("context", "").strip()
refuse_if_no_context(context) == Strip(context) = <<>>

\* ----------------------------------------------------- provider choice
\* the two branches swapped: gemini by name, anything else fireworks
_pick_llm_default_fireworks(provider) ==
    LET prov == Lower(IF provider = <<>> THEN GEMINI ELSE provider)
    IN  IF prov = GEMINI THEN "gemini" ELSE "fireworks"

\* _pick_llm: (provider or "gemini").lower(), "fireworks" or else gemini
_pick_llm(provider) ==
    LET prov == Lower(IF provider = <<>> THEN GEMINI ELSE provider)
    IN  IF prov = FIREWORKS THEN "fireworks" ELSE "gemini"

\* ---------------------------------------------------- session history
\* What RunnableWithMessageHistory hands to its get_session_history
\* callback for config={"configurable": {"session_id": sid}}: a callback
\* of one parameter is called with the configured session id itself, a str.
FactoryArg(cfg) == [type |-> "str", value |-> cfg.configurable.session_id]

\* chat step 4: cfg = {"configurable": {"session_id": q.session_id or "default"}}
ChatCfg(sid) ==
    [type |-> "dict",
     configurable |-> [session_id |-> IF sid = "" THEN "default" ELSE sid]]

\* _history_from_cfg: the session id is read only from a dict argument
_history_from_cfg(cfg) ==
    IF cfg.type = "dict" THEN cfg.configurable.session_id ELSE "default"

\* _get_history: the key of the bucket, session_id or "default"
_get_history(sid) == IF sid = "" THEN "default" ELSE sid

\* the recording step attached to failed runs too: the question is kept
on_error_records(messages, turn) == Append(messages, turn)

\* RunnableWithMessageHistory attaches its recording step with
\* with_listeners(on_end=...) alone: a run that raises records nothing.
on_error(messages, turn) == messages

\* Turns: HumanMessage / AIMessage; rid is an auxiliary tag naming the
\* request that appended the turn (not part of the program's data)
Turn(role, content, rid) == [role |-> role, content |-> content, rid |-> rid]

\* the keys _histories can hold for the session ids above
Keys == {"default"} \cup (SessionIds \ {""})

VARIABLES
    req,            \* per worker: the position in chat() and the locals of its request
    started,        \* requests received so far
    histories,      \* _histories: bucket key -> history object (heap index, 0 = no entry)
    heap,           \* heap[i]: the messages list of history object i
    fwCache,        \* lru_cache of llm_fireworks.get_llm (0 = empty)
    storeCache,     \* lru_cache of retriever._store
    built,          \* constructions of each provider so far
    warmups,        \* warmup runs so far
    configured,     \* the environment: which providers' packages and API keys are in place
    completed       \* auxiliary: the requests that returned, in completion order

vars == <<req, started, histories, heap, fwCache, storeCache, built, warmups, configured, completed>>

\* The record of a worker whose request has not started or has left chat():
\*   rid         auxiliary: the ordinal of the request (0 = none yet)
\*   pc          position in chat()
\*   message, session_id, provider   the fields of q
\*   llm         the model instance _pick_llm returned
\*   hist        the history object the wrapper resolved (heap index, 0 = none)
\*   docs        the documents retrieved
\*   answer      the chain's result["answer"]
\*   response    the body returned to the caller
\*   error       the exception that left chat(), "" when none
\*   retrCalls, genCalls   retriever and model invocations made for the request
\*   debug       the body chat_debug returned, with the message it was asked
NoLlm == [provider |-> "", id |-> 0]

NoDebug == [kind |-> "none", query |-> <<>>, chunks |-> <<>>, error |-> ""]

Blank ==
    [rid |-> 0, pc |-> "idle", message |-> <<>>, session_id |-> "", provider |-> <<>>,
     llm |-> NoLlm, hist |-> 0, docs |-> <<>>, answer |-> <<>>,
     response |-> <<>>, error |-> "", retrCalls |-> 0, genCalls |-> 0,
     debug |-> NoDebug]

Init ==
    /\ req = [w \in Workers |-> Blank]
    /\ started = 0
    /\ histories = [k \in Keys |-> 0]
    /\ heap = <<>>
    /\ fwCache = 0
    /\ storeCache = FALSE
    /\ built = [p \in {"gemini", "fireworks"} |-> 0]
    /\ warmups = 0
    /\ configured \in [{"gemini", "fireworks"} -> BOOLEAN]
    /\ completed = <<>>

Active == {"pick", "fw_construct", "retriever", "wrap", "chain",
           "append_user", "append_ai"}

InFlight == {w \in Workers : req[w].pc \in Active}

\* the pool hands a new request to a free worker (the workers are alike:
\* the first free one is taken)
Dispatch(w) ==
    /\ w \notin InFlight
    /\ w = "w1" \/ "w1" \in InFlight

\* the turns stored for a session id (none while the bucket does not exist)
TurnsOf(key) == IF histories[key] # 0 THEN heap[histories[key]] ELSE <<>>

\* the bucket a session id names: session_id or "default"
SessionKey(sid) == IF sid = "" THEN "default" ELSE sid

\* ------------------------------------------------------------- chat()
\* Request r arrives; chat step 1, the abuse guard, short-circuits.
ChatStart(r) ==
    /\ Dispatch(r)
    /\ started < MaxRequests
    /\ started' = started + 1
    /\ \E m \in Messages, s \in SessionIds, p \in Providers :
        IF contains_abuse(m)
        THEN req' = [req EXCEPT ![r] = [Blank EXCEPT !.pc = "blocked", !.message = m,
                                                     !.response = ABUSE_MSG]]
        ELSE req' = [req EXCEPT ![r] = [Blank EXCEPT !.rid = started + 1,
                                                     !.pc = "pick", !.message = m,
                                                     !.session_id = s, !.provider = p]]
    /\ UNCHANGED <<histories, heap, fwCache, storeCache, built, warmups, configured, completed>>

\* an exception leaves chat(): nothing is returned and the locals are gone
Failed(e) == [Blank EXCEPT !.pc = "failed", !.error = e]

Raise(r, e) == req' = [req EXCEPT ![r] = Failed(e)]

\* a model instance is named by its provider and the ordinal of its construction
NewLlm(p) == [provider |-> p, id |-> built[p] + 1]

\* chat step 2, _pick_llm with the gemini module: get_llm() builds a new
\* ChatGoogleGenerativeAI on every call; Settings() raises when
\* GOOGLE_API_KEY is not set.
PickGemini(r) ==
    /\ req[r].pc = "pick"
    /\ _pick_llm(req[r].provider) = "gemini"
    /\ IF configured["gemini"]
       THEN /\ req' = [req EXCEPT ![r].llm = NewLlm("gemini"), ![r].pc = "retriever"]
            /\ built' = [built EXCEPT !["gemini"] = @ + 1]
       ELSE /\ Raise(r, "ProviderError")
            /\ built' = built
    /\ UNCHANGED <<started, histories, heap, fwCache, storeCache, warmups, configured, completed>>

\* chat step 2, _pick_llm with the fireworks module: the lru_cache lookup.
\* A hit returns the cached instance; a miss goes on to call the function.
PickFireworks(r) ==
    /\ req[r].pc = "pick"
    /\ _pick_llm(req[r].provider) = "fireworks"
    /\ IF fwCache # 0
       THEN req' = [req EXCEPT ![r].llm = [provider |-> "fireworks", id |-> fwCache],
                               ![r].pc = "retriever"]
       ELSE req' = [req EXCEPT ![r].pc = "fw_construct"]
    /\ UNCHANGED <<started, histories, heap, fwCache, storeCache, built, warmups, configured, completed>>

\* the wrapped fireworks get_llm() runs after a miss, outside the cache's
\* lock; its result is stored unless another caller stored one meanwhile.
\* The import or Settings() raises when the package or FIREWORKS_API_KEY is
\* missing (nothing is cached then).
FireworksConstruct(r) ==
    /\ req[r].pc = "fw_construct"
    /\ IF configured["fireworks"]
       THEN /\ req' = [req EXCEPT ![r].llm = NewLlm("fireworks"), ![r].pc = "retriever"]
            /\ built' = [built EXCEPT !["fireworks"] = @ + 1]
            /\ fwCache' = IF fwCache = 0 THEN NewLlm("fireworks").id ELSE fwCache
       ELSE /\ Raise(r, "ProviderError")
            /\ UNCHANGED <<built, fwCache>>
    /\ UNCHANGED <<started, histories, heap, storeCache, warmups, configured, completed>>

\* chat step 2, build_chain(llm, get_retriever()): _store() is cached; its
\* first call connects to the database and loads the embedding model and may
\* raise.  q.provider was read by _pick_llm only and is not read again.
GetRetriever(r) ==
    /\ req[r].pc = "retriever"
    /\ \/ /\ storeCache' = TRUE
          /\ req' = [req EXCEPT ![r].pc = "wrap", ![r].provider = <<>>]
       \/ /\ ~storeCache
          /\ Raise(r, "RetrievalError")
          /\ storeCache' = storeCache
    /\ UNCHANGED <<started, histories, heap, fwCache, built, warmups, configured, completed>>

\* get-or-create by plain assignment: every call stores a new history object
EnterHistory_Assign(r) ==
    /\ req[r].pc = "wrap"
    /\ LET key == _get_history(_history_from_cfg(FactoryArg(ChatCfg(req[r].session_id))))
           new == Len(heap) + 1
       IN  /\ heap' = Append(heap, <<>>)
           /\ histories' = [histories EXCEPT ![key] = new]
           /\ req' = [req EXCEPT ![r].hist = new, ![r].pc = "chain"]
    /\ UNCHANGED <<started, fwCache, storeCache, built, warmups, configured, completed>>

\* chat steps 3-4, chat_chain.invoke, before the chain runs: the wrapper
\* resolves the history object through _history_from_cfg -> _get_history.
\* _get_history builds
\* a new InMemoryChatMessageHistory on every call and dict.setdefault stores
\* it only when the key has no entry (one atomic dict operation); an object
\* that is not stored is dropped at once and gets no place on the heap.
EnterHistory(r) ==
    /\ req[r].pc = "wrap"
    /\ LET key == _get_history(_history_from_cfg(FactoryArg(ChatCfg(req[r].session_id))))
           new == Len(heap) + 1
       IN  IF histories[key] = 0
           THEN /\ heap' = Append(heap, <<>>)
                /\ histories' = [histories EXCEPT ![key] = new]
                /\ req' = [req EXCEPT ![r].hist = new, ![r].pc = "chain"]
           ELSE /\ UNCHANGED <<heap, histories>>
                /\ req' = [req EXCEPT ![r].hist = histories[key], ![r].pc = "chain"]
    /\ UNCHANGED <<started, fwCache, storeCache, built, warmups, configured, completed>>

\* the chain build_chain returns, run once.  The wrapper hands it the
\* turns of the resolved object, heap[hist] as it is now, as the prompt's
\* "history"; then question | retriever | _join_docs and the RunnableBranch:
\* blank context -> the fixed refusal, otherwise prompt | llm |
\* StrOutputParser().  The search and the model call may raise; then only
\* on_error listeners would run.  llm is not read again after this step.
RunChain(r) ==
    /\ req[r].pc = "chain"
    /\ LET human == Turn("human", req[r].message, req[r].rid)
           raised == [heap EXCEPT ![req[r].hist] = on_error(@, human)]
       IN  \/ \E ranking \in Rankings :
                LET ds == Retrieved(ranking)
                    context == _join_docs(ds)
                    ran == [req[r] EXCEPT !.docs = ds, !.retrCalls = @ + 1,
                                          !.llm = NoLlm]
                IN  IF refuse_if_no_context(context)
                    THEN /\ req' = [req EXCEPT ![r] = [ran EXCEPT !.answer = SCOPE_MSG,
                                                                  !.pc = "append_user"]]
                         /\ heap' = heap
                    ELSE \/ /\ \E text \in LLMAnswers :
                                 req' = [req EXCEPT ![r] = [ran EXCEPT !.answer = text,
                                                                       !.genCalls = @ + 1,
                                                                       !.pc = "append_user"]]
                            /\ heap' = heap
                         \/ /\ Raise(r, "UpstreamError")
                            /\ heap' = raised
           \/ /\ Raise(r, "RetrievalError")
              /\ heap' = raised
    /\ UNCHANGED <<started, histories, fwCache, storeCache, built, warmups, configured, completed>>

\* a history whose add_message puts the new message in front
add_message_front(messages, turn) == <<turn>> \o messages

\* InMemoryChatMessageHistory.add_message: self.messages.append(message)
add_message(messages, turn) == Append(messages, turn)

\* the wrapper's on_end listener: hist.add_messages([human, ai]) appends the
\* two messages one at a time; first the HumanMessage of the question
AppendUser(r) ==
    /\ req[r].pc = "append_user"
    /\ heap' = [heap EXCEPT ![req[r].hist] =
                    add_message(@, Turn("human", req[r].message, req[r].rid))]
    /\ req' = [req EXCEPT ![r].pc = "append_ai"]
    /\ UNCHANGED <<started, histories, fwCache, storeCache, built, warmups, configured, completed>>

\* then the AIMessage of the answer; chat step 5 returns {"answer": ...}
AppendAI(r) ==
    /\ req[r].pc = "append_ai"
    /\ heap' = [heap EXCEPT ![req[r].hist] =
                    add_message(@, Turn("ai", req[r].answer, req[r].rid))]
    /\ req' = [req EXCEPT ![r] = [Blank EXCEPT !.pc = "done", !.response = req[r].answer]]
    /\ completed' = Append(completed, [rid |-> req[r].rid, session_id |-> req[r].session_id,
                                       message |-> req[r].message,
                                       answer |-> req[r].answer])
    /\ UNCHANGED <<started, histories, fwCache, storeCache, built, warmups, configured>>

\* -------------------------------------------------------- chat_debug()
\* d.page_content[:300]
PREVIEW_CHARS == 300

Preview(text) ==
    SubSeq(text, 1, IF Len(text) < PREVIEW_CHARS THEN Len(text) ELSE PREVIEW_CHARS)

\* a handler without the except clause: the exception leaves chat_debug
debug_reraise(m, e) == Failed(e)

\* chat_debug's "except Exception as e": the body {"error": str(e), "trace": ...}
debug_except(m, e) ==
    [Blank EXCEPT !.pc = "debug_done",
                  !.debug = [kind |-> "error", query |-> m, chunks |-> <<>>, error |-> e]]

\* POST /chat_debug, the whole handler: get_retriever().invoke(q.message)
\* inside try; the body is {"chunks": [previews]} or, when _store() or the
\* search raises, the error payload.  No abuse guard, no chain, no history.
ChatDebug(r) ==
    /\ Dispatch(r)
    /\ started < MaxRequests
    /\ started' = started + 1
    /\ \E m \in Messages :
        \/ /\ ~storeCache
           /\ req' = [req EXCEPT ![r] = debug_except(m, "RetrievalError")]
           /\ storeCache' = storeCache
        \/ /\ storeCache' = TRUE
           /\ \/ req' = [req EXCEPT ![r] =
                         [debug_except(m, "RetrievalError") EXCEPT !.retrCalls = 1]]
              \/ \E ranking \in Rankings :
                    LET ds == Retrieved(ranking)
                    IN  req' = [req EXCEPT ![r] =
                                 [Blank EXCEPT !.pc = "debug_done", !.docs = ds,
                                               !.retrCalls = 1,
                                               !.debug = [kind |-> "chunks", query |-> m,
                                                          chunks |-> [i \in 1..Len(ds) |->
                                                                        Preview(ds[i].page_content)],
                                                          error |-> ""]]]
    /\ UNCHANGED <<histories, heap, fwCache, built, warmups, configured, completed>>

\* ------------------------------------------------------------- warmup
\* _warm_retriever and _warm_llms (startup hook and POST /warmup): every
\* exception is logged and swallowed.  get_gemini_llm() builds an instance
\* and drops it; get_fireworks_llm() goes through its lru_cache.
Warmup ==
    /\ warmups < MaxWarmups
    /\ warmups' = warmups + 1
    /\ storeCache' \in {storeCache, TRUE}
    /\ LET afterGemini == IF configured["gemini"]
                           THEN [built EXCEPT !["gemini"] = @ + 1]
                           ELSE built
       IN  IF configured["fireworks"] /\ fwCache = 0
           THEN /\ built' = [afterGemini EXCEPT !["fireworks"] = @ + 1]
                /\ fwCache' = NewLlm("fireworks").id
           ELSE /\ built' = afterGemini
                /\ fwCache' = fwCache
    /\ UNCHANGED <<req, started, histories, heap, configured, completed>>

Next ==
    \/ \E r \in Workers :
        \/ ChatStart(r)
        \/ ChatDebug(r)
        \/ PickGemini(r)
        \/ PickFireworks(r)
        \/ FireworksConstruct(r)
        \/ GetRetriever(r)
        \/ EnterHistory(r)
        \/ RunChain(r)
        \/ AppendUser(r)
        \/ AppendAI(r)
    \/ Warmup

Spec == Init /\ [][Next]_vars

\* The same program when the caller sends its calls one after another:
\* a request arrives only when no other request is being served.
ChatStartSeq(r) == InFlight = {} /\ ChatStart(r)

ChatDebugSeq(r) == InFlight = {} /\ ChatDebug(r)

NextSeq ==
    \/ \E r \in Workers :
        \/ ChatStartSeq(r)
        \/ ChatDebugSeq(r)
        \/ PickGemini(r)
        \/ PickFireworks(r)
        \/ FireworksConstruct(r)
        \/ GetRetriever(r)
        \/ EnterHistory(r)
        \/ RunChain(r)
        \/ AppendUser(r)
        \/ AppendAI(r)
    \/ Warmup

SpecSeq == Init /\ [][NextSeq]_vars

\* =============================================================== claims
\* the session id of the request with ordinal rid (in flight or returned)
SidOf(rid) ==
    IF \E w \in Workers : req[w].rid = rid
    THEN req[CHOOSE w \in Workers : req[w].rid = rid].session_id
    ELSE LET i == CHOOSE i \in 1..Len(completed) : completed[i].rid = rid
         IN  completed[i].session_id

TurnsFrom(key, turns) ==
    \A i \in 1..Len(turns) : SessionKey(SidOf(turns[i].rid)) = key

\* C1: session isolation.  The turns stored for a session id are turns of
\* requests made with that session id only, and the turns a request is
\* about to receive as prompt history are turns of its own session only.
C1_SessionIsolation ==
    /\ \A k \in Keys : TurnsFrom(k, TurnsOf(k))
    /\ \A w \in Workers :
         req[w].pc = "chain" =>
            TurnsFrom(SessionKey(req[w].session_id), heap[req[w].hist])

\* a message contains a disallowed term, compared without regard to case
SameLetter(a, b) == LowerChar(a) = LowerChar(b)

HasDisallowedTerm(m) ==
    \E bad \in ABUSIVE_WORDS :
        \E i \in 0..Len(m) :
            /\ i + Len(bad) <= Len(m)
            /\ \A j \in 1..Len(bad) : SameLetter(m[i + j], bad[j])

\* the messages of the model that contain a disallowed term
DisallowedMessages == {m \in Messages : HasDisallowedTerm(m)}

C2_Blocked(w) ==
    /\ req[w].pc = "blocked"
    /\ req[w].response = ABUSE_MSG
    /\ req[w].retrCalls = 0
    /\ req[w].genCalls = 0
    /\ req[w].hist = 0

\* C2: a request whose message contains a disallowed term (case-insensitive
\* substring) is answered with the fixed abuse message, which differs from
\* the scope refusal; it makes no retrieval and no generation call, and the
\* step that serves it leaves every session's stored turns as they were.
C2_AbuseShortCircuit ==
    /\ ABUSE_MSG # SCOPE_MSG
    /\ [](\A w \in Workers : req[w].message \in DisallowedMessages => C2_Blocked(w))
    /\ [][\A w \in Workers :
            (req'[w] # req[w] /\ req'[w].message \in DisallowedMessages)
                => (heap' = heap /\ histories' = histories)]_vars

\* a mixed-case abusive message was blocked while a session already held turns
C2_Witness ==
    \E w \in Workers :
        /\ req[w].pc = "blocked"
        /\ req[w].message # Lower(req[w].message)
        /\ \E k \in Keys : Len(TurnsOf(k)) >= 2

Recording(w) == req[w].pc \in {"append_user", "append_ai"}

\* C3: when retrieval returned no chunk at or above the threshold, the
\* answer is the scope-refusal literal, verbatim, without a model call, and
\* that answer is what the caller receives - whatever turns the session holds.
C3_ScopeRefusal ==
    /\ [](\A w \in Workers :
            (Recording(w) /\ req[w].docs = <<>>)
                => (req[w].answer = SCOPE_MSG /\ req[w].genCalls = 0))
    /\ [][\A w \in Workers :
            (req[w].pc = "append_ai" /\ req[w].docs = <<>> /\ req'[w] # req[w])
                => (req'[w].pc = "done" /\ req'[w].response = SCOPE_MSG)]_vars

\* a refusal is being recorded in a session that already holds earlier turns
C3_Witness ==
    \E w \in Workers :
        /\ req[w].pc = "append_ai"
        /\ req[w].docs = <<>>
        /\ req[w].retrCalls = 1
        /\ Len(heap[req[w].hist]) >= 3

\* C4: when retrieval returned at least one chunk at or above the threshold
\* the assembled context is not empty and the model was invoked exactly once
\* (the gate let the request through); the assembled context is empty
\* exactly when no chunk cleared the threshold.
C4_ProceedOnEvidence ==
    \A w \in Workers :
        Recording(w) =>
            /\ (req[w].docs = <<>>) <=> (_join_docs(req[w].docs) = <<>>)
            /\ req[w].docs # <<>> =>
                  /\ req[w].genCalls = 1
                  /\ req[w].answer \in LLMAnswers
            /\ \A i \in 1..Len(req[w].docs) : req[w].docs[i].score >= SCORE_THRESHOLD

\* two chunks cleared the threshold, one of them exactly at it
C4_Witness ==
    \E w \in Workers :
        /\ req[w].pc = "append_ai"
        /\ Len(req[w].docs) = 2
        /\ req[w].docs[2].score = SCORE_THRESHOLD
        /\ req[w].genCalls = 1

\* the user turn and the assistant turn of a returned request
PairOf(e) == <<Turn("human", e.message, e.rid), Turn("ai", e.answer, e.rid)>>

\* the pairs of the returned requests in log, in the order of log
RECURSIVE Pairs(_)
Pairs(log) == IF log = <<>> THEN <<>> ELSE PairOf(Head(log)) \o Pairs(Tail(log))

\* C5: history ordering.  After N sequential successful calls of a session
\* the session holds exactly 2N turns, user then assistant, the message and
\* the returned answer of each call, in call order.
C5_HistoryOrdering ==
    InFlight = {} =>
        \A k \in Keys :
            LET ofSession(e) == SessionKey(e.session_id) = k
            IN  TurnsOf(k) = Pairs(SelectSeq(completed, ofSession))

\* a provider name that is not empty and names no registered provider
Unregistered(p) == p # <<>> /\ Lower(p) \notin {GEMINI, FIREWORKS}

\* the provider names of the model that are not registered
UnregisteredNames == {p \in Providers : Unregistered(p)}

C7_AllOrNothing ==
    [][\A w \in Workers :
        (req[w].pc \in Active /\ req'[w].pc = "failed")
            => /\ heap' = heap
               /\ histories' = histories
               /\ \A o \in 1..Len(heap) :
                    \A i \in 1..Len(heap[o]) : heap[o][i].rid # req[w].rid
               /\ req'[w].response = <<>>
               /\ req'[w].error \in {"ProviderError", "RetrievalError", "UpstreamError"}]_vars

\* generation failed for a request of a session that already held turns
C7_Witness ==
    \E w \in Workers :
        /\ req[w].pc = "failed"
        /\ req[w].error = "UpstreamError"
        /\ \E k \in Keys : Len(TurnsOf(k)) >= 2

RidsIn(o) == {heap[o][i].rid : i \in 1..Len(heap[o])}

\* C8: concurrent requests of one session.  Once all requests have returned,
\* the stored sequence holds each request's user turn and assistant turn
\* exactly once, the user turn directly followed by its assistant turn, the
\* pairs in the order in which the requests completed.
C8_ConcurrentAppends ==
    InFlight = {} =>
        /\ \A i \in 1..Len(completed) :
             \E o \in 1..Len(heap) : completed[i].rid \in RidsIn(o)
        /\ \A o \in 1..Len(heap) :
             LET inObject(e) == e.rid \in RidsIn(o)
             IN  heap[o] = Pairs(SelectSeq(completed, inObject))

C10_ProvidersBuiltOnce ==
    /\ \A p \in {"gemini", "fireworks"} : built[p] <= 1
    /\ \A w1 \in Workers, w2 \in Workers :
         (req[w1].llm # NoLlm /\ req[w1].llm.provider = req[w2].llm.provider)
            => req[w1].llm.id = req[w2].llm.id

\* the previews of the documents a debug request retrieved
PreviewsOf(ds) == [i \in 1..Len(ds) |-> Preview(ds[i].page_content)]

C11_Payload(w) ==
    /\ req[w].debug.kind \in {"chunks", "error"}
    /\ req[w].error = ""
    /\ req[w].genCalls = 0
    /\ req[w].llm = NoLlm
    /\ req[w].hist = 0
    /\ req[w].debug.kind = "chunks" =>
          /\ req[w].retrCalls = 1
          /\ req[w].debug.chunks = PreviewsOf(req[w].docs)
          /\ \A i \in 1..Len(req[w].docs) : req[w].docs[i].score >= SCORE_THRESHOLD
    /\ req[w].debug.kind = "error" =>
          /\ req[w].debug.error # ""
          /\ req[w].debug.chunks = <<>>

\* C11: /chat_debug never propagates a failure and never touches chat
\* state.  An arriving request that is not a /chat request (it is neither
\* blocked by the abuse guard nor on its way to _pick_llm) ends, for every
\* message, with a body of chunk previews or an error payload, never with an
\* exception; it invokes no model and resolves no history, and the step that
\* serves it leaves the stored turns, the session store, the providers and
\* every other request as they were.
C11_DebugNeverPropagates ==
    /\ [](\A w \in Workers : req[w].pc = "debug_done" => C11_Payload(w))
    /\ [][\A w \in Workers :
            (started' = started + 1 /\ req'[w] # req[w]
               /\ req'[w].pc \notin {"blocked", "pick"})
                => /\ req'[w].pc = "debug_done"
                   /\ heap' = heap
                   /\ histories' = histories
                   /\ built' = built
                   /\ fwCache' = fwCache
                   /\ completed' = completed
                   /\ \A v \in Workers \ {w} : req'[v] = req[v]]_vars

\* retrieval raised for an abusive debug message while a session held turns
C11_Witness ==
    \E w \in Workers :
        /\ req[w].pc = "debug_done"
        /\ req[w].debug.query \in DisallowedMessages
        /\ req[w].debug.kind = "error"
        /\ \E k \in Keys : Len(TurnsOf(k)) >= 2

\* the request of worker w has passed the scope gate with a PROCEED decision
Proceeded(w) == req[w].retrCalls = 1 /\ req[w].docs # <<>>

\* C12: per-request step ordering.  A /chat request resolves its model
\* provider (constructs it or looks it up) only after retrieval has run and
\* the scope gate has decided PROCEED: a request that holds a model, or is
\* constructing one, has retrieved at least one chunk, and a request fails
\* on its provider only after such a decision.
C12_ProviderAfterScopeGate ==
    /\ [](\A w \in Workers :
            (req[w].llm # NoLlm \/ req[w].pc = "fw_construct") => Proceeded(w))
    /\ [][\A w \in Workers :
            (req[w].pc \in Active /\ req'[w].pc = "failed"
               /\ req'[w].error = "ProviderError") => Proceeded(w)]_vars

IsPrefix(a, b) == Len(a) <= Len(b) /\ SubSeq(b, 1, Len(a)) = a

\* C13: append-only sessions.  In every step of /chat, /chat_debug and
\* warmup a session that exists stays in the store, and each session's turn
\* sequence before the step is a prefix of its turn sequence after it: no
\* turn is removed, reordered or edited.
C13_AppendOnly ==
    [][\A k \in Keys :
        /\ histories[k] # 0 => histories'[k] # 0
        /\ IsPrefix(TurnsOf(k), TurnsOf(k)')]_vars

\* a session holds turns after a chat request, a debug request and a warmup
C13_Witness ==
    /\ warmups >= 1
    /\ \E w \in Workers : req[w].pc = "debug_done"
    /\ \E k \in Keys : Len(TurnsOf(k)) >= 2

====
